---- MODULE Spec2Model ----
(***************************************************************************)
(* Health-check engine of mcpmon-back: the per-monitor state machine of    *)
(* checkSingleMonitor (services/monitoring.js), the fan-out of             *)
(* checkAllMonitors, the setInterval scheduler (services/scheduler.js),    *)
(* the startup check of index.js and the pause / resume / update           *)
(* controllers.  The monitor store is modelled as Mongoose uses it: a tick *)
(* loads a private document per monitor, the check mutates that document,  *)
(* and save() writes back the paths the check modified.  The probes of     *)
(* services/mcp-client.js (the plain probe, its retry wrapper, the session *)
(* probe with tool discovery) and the session cache of sessionManager.js   *)
(* are modelled by what they compute from the target's answers.            *)
(***************************************************************************)
EXTENDS Integers, FiniteSets, Sequences, TLC

\* ---------------------------------------------------------------- bounds
MaxClock == 2          \* the clock runs 0..MaxClock, in units of HoursPerUnit
MaxChecks == 4         \* checks started per monitor
MaxTicks == 2          \* tick invocations that can be in flight together
MaxTallyTicks == 2     \* ticks run over both monitors
MinutesPerStep == 30   \* one step of the session manager's clock, in minutes
MaxSessionSteps == 3   \* steps the session manager's clock takes
MaxRetryAttempts == 5  \* largest retryAttempts given to the retry wrapper
MaxProbeChecks == 2    \* checks run against concrete targets
MaxControlChecks == 3  \* checks run while the owner updates the monitor
MaxDiscoveryChecks == 2  \* checks run with tool discovery against every target
MaxScanRuns == 4         \* security-scan runs started

\* ------------------------------------------------------ program constants
HoursPerUnit == 12     \* one clock unit of the model, in hours
ReminderHours == 24    \* shouldSendDailyReminder: hoursSinceLastAlert >= 24
MaxAlerts == 4         \* shouldSendDailyReminder: alertsSentCount >= 4
AlertThreshold == 2    \* checkSingleMonitor: consecutiveFailures >= 2
NoTime == -1           \* a Date field holding null
DefaultRetryAttempts == 3  \* testMCPConnectionWithRetry: monitor.retryAttempts || 3
BackoffBaseMs == 1000  \* testMCPConnectionWithRetry: 1000 * Math.pow(2, attempt - 1)
BackoffCapMs == 5000   \* testMCPConnectionWithRetry: Math.min(..., 5000)
SchemaRetryAttempts == 3  \* monitorSchema: retryAttempts default
Hundredths == 100      \* calculateUptime: toFixed(2), a percentage kept in hundredths

\* The monitor collection, in the order Monitor.find returns it.
MonitorOrder == <<"m1", "m2">>
Monitors == {"m1", "m2"}
\* The monitor that is active when the server starts; the other is paused.
Watched == {"m1"}
TickIds == 1..MaxTicks
Verdicts == {"up", "upWarning", "down"}
UserLookups == {"found", "missing", "throws"}
UpdatableFlags == {"isActive", "alertsEnabled", "notifyOnRecovery", "toolsSyncEnabled"}
Urls == {"urlA", "urlB"}
Null == "null"         \* null / undefined
SessionIds == {"sidA", "sidB"}
Capabilities == {"caps", Null}

\* ------------------------------------------------------------------ state
VARIABLES
  db,            \* the monitor collection: one persisted document per monitor
  tick,          \* per slot: a running invocation of checkAllMonitors, or idle
  chk,           \* per slot and monitor: the checkSingleMonitor call in flight
  clock,         \* Date.now(), in clock units
  immediateRun,  \* index.js has issued runImmediateCheck
  checksStarted, \* history: checks started per monitor
  failRun,       \* history: trailing run of unreachable verdicts per monitor
  downSince,     \* history: time of the first check of that run (null: no run)
  initialInRun,  \* history: initial alerts sent since consecutiveFailures was last persisted as 0
  recovSinceOffline, \* history: recovery notifications sent since the monitor was last persisted offline
  episodeAlerts, \* history: down alerts sent since the monitor was last persisted online
  lastSentAt,    \* history: time the last down alert was dispatched
  alertable,     \* history: alerts were enabled and the user was found on every check so far
  latencySpan,   \* history: the reachable verdicts so far and their smallest and largest response time
  sessionCache,  \* sessionManager.js: the Map from monitor id to session entry
  nowMin,        \* Date.now() as the session manager reads it, in minutes
  call,          \* history: the last call of the session manager and what it met and returned
  probe,         \* history, per slot and monitor: what the check's probe met and did
  retry,         \* a call of testMCPConnectionWithRetry: its loop and the waits it made
  scan           \* securityScheduler.js: its module variables and, as history, the runs in flight

vars == <<db, tick, chk, clock, immediateRun, checksStarted, failRun, downSince,
          initialInRun, recovSinceOffline, episodeAlerts, lastSentAt,
          alertable, latencySpan, sessionCache, nowMin, call, probe, retry, scan>>

\* What the health-check engine holds.
engineVars == <<db, tick, chk, clock, immediateRun, checksStarted, failRun,
                downSince, initialInRun, recovSinceOffline, episodeAlerts, lastSentAt,
                alertable, latencySpan>>

\* What the session manager holds, what the retry wrapper is doing and what
\* the security scheduler holds.
clientVars == <<sessionCache, nowMin, call, retry, scan>>

ghosts == <<checksStarted, failRun, downSince, initialInRun, recovSinceOffline,
            episodeAlerts, lastSentAt, alertable, latencySpan>>

\* ------------------------------------------------------- monitor document
\* Schema defaults of a freshly created monitor.
NewMonitor ==
  [ status |-> "unknown", isActive |-> TRUE,
    alertsEnabled |-> TRUE, notifyOnRecovery |-> TRUE,
    totalChecks |-> 0, failedChecks |-> 0, consecutiveFailures |-> 0,
    alertsSentCount |-> 0, lastAlertSentAt |-> NoTime,
    lastError |-> "none",
    lastDowntime |-> NoTime, lastStatusChangeAt |-> NoTime,
    url |-> "urlA", toolsSyncEnabled |-> FALSE,
    uptimePercentage |-> 100 * Hundredths, averageResponseTime |-> 0,
    retryAttempts |-> SchemaRetryAttempts ]

Fields == DOMAIN NewMonitor

\* A monitor its owner paused right after creating it.
PausedMonitor == [NewMonitor EXCEPT !.status = "paused", !.isActive = FALSE]

\* A document together with the paths Mongoose has marked modified.
\* Assigning the value a path already holds does not mark it.
SetPath(s, f, v) ==
  [ doc |-> [s.doc EXCEPT ![f] = v],
    dirty |-> IF s.doc[f] = v THEN s.dirty ELSE s.dirty \cup {f} ]

\* monitor.save(): writes the modified paths over the stored document.
SaveDoc(stored, s) ==
  [f \in Fields |-> IF f \in s.dirty THEN s.doc[f] ELSE stored[f]]

\* monitor.calculateUptime() on totalChecks = total, failedChecks = failed:
\* the percentage in hundredths, rounded to the nearest (no quotient of the
\* counters reached here lies halfway between two hundredths).
calculateUptime(total, failed) ==
  IF total = 0 THEN 100 * Hundredths
  ELSE (2 * (total - failed) * 100 * Hundredths + total) \div (2 * total)

\* monitor.uptimePercentage = monitor.calculateUptime()
SetUptime(s) ==
  SetPath(s, "uptimePercentage",
          calculateUptime(s.doc.totalChecks, s.doc.failedChecks))

\* ------------------------------------------------- emailService.js helper
\* shouldSendDailyReminder(monitor), evaluated at time now.
shouldSendDailyReminderNoWait(d, now) ==
  IF d.status # "offline" THEN FALSE
  ELSE IF ~d.alertsEnabled THEN FALSE
  ELSE IF d.alertsSentCount >= MaxAlerts THEN FALSE
  ELSE ~(d.lastAlertSentAt = NoTime \/ d.alertsSentCount = 0)

shouldSendDailyReminder(d, now) ==
  IF d.status # "offline" THEN FALSE
  ELSE IF ~d.alertsEnabled THEN FALSE
  ELSE IF d.alertsSentCount >= MaxAlerts THEN FALSE
  ELSE IF d.lastAlertSentAt = NoTime \/ d.alertsSentCount = 0 THEN FALSE
  ELSE (now - d.lastAlertSentAt) * HoursPerUnit >= ReminderHours

\* --------------------------------------- checkSingleMonitor, the try block
\* Reachable branch (isUp): status, streak reset, recovery edge, lastError.
\* u is the outcome of User.findById for the recovery notification.
UpBranchAlwaysResets(s, prevStatus, v, u, now) ==
  LET wasOffline == prevStatus = "offline"
      a1 == SetPath(SetPath(s, "status", "online"), "consecutiveFailures", 0)
      a2 == IF wasOffline THEN SetPath(a1, "lastStatusChangeAt", now) ELSE a1
      sent == wasOffline /\ a2.doc.alertsEnabled /\ a2.doc.notifyOnRecovery
                /\ u = "found"
      a3 == SetPath(SetPath(a2, "alertsSentCount", 0), "lastAlertSentAt", NoTime)
      a4 == SetPath(a3, "lastError", IF v = "upWarning" THEN "warning" ELSE "none")
  IN [ s |-> a4, recoverySent |-> sent, initialSent |-> FALSE,
       statusChanged |-> wasOffline ]

UpBranch(s, prevStatus, v, u, now) ==
  LET wasOffline == prevStatus = "offline"
      a1 == SetPath(SetPath(s, "status", "online"), "consecutiveFailures", 0)
      a2 == IF wasOffline THEN SetPath(a1, "lastStatusChangeAt", now) ELSE a1
      sent == wasOffline /\ a2.doc.alertsEnabled /\ a2.doc.notifyOnRecovery
                /\ u = "found"
      a3 == IF wasOffline
            THEN SetPath(SetPath(a2, "alertsSentCount", 0), "lastAlertSentAt", NoTime)
            ELSE a2
      a4 == SetPath(a3, "lastError", IF v = "upWarning" THEN "warning" ELSE "none")
  IN [ s |-> a4, recoverySent |-> sent, initialSent |-> FALSE,
       statusChanged |-> wasOffline ]

\* Unreachable branch: status, counters, failure edge, initial downtime alert.
\* The user lookup and the dispatch sit in a try block of their own.
DownBranchUncaught(s, prevStatus, prevFailures, u, now) ==
  LET wasOnline == prevStatus = "online"
      b1 == SetPath(SetPath(s, "status", "offline"), "lastError", "error")
      b2 == SetPath(b1, "failedChecks", b1.doc.failedChecks + 1)
      b3 == IF u = "throws" THEN b2
            ELSE SetPath(b2, "consecutiveFailures", b2.doc.consecutiveFailures + 1)
      sent == b3.doc.consecutiveFailures >= AlertThreshold
                /\ prevFailures < AlertThreshold /\ b3.doc.alertsEnabled /\ u = "found"
  IN [ s |-> b3, recoverySent |-> FALSE, initialSent |-> sent,
       statusChanged |-> wasOnline ]

DownBranch(s, prevStatus, prevFailures, u, now) ==
  LET wasOnline == prevStatus = "online"
      b1 == SetPath(SetPath(s, "status", "offline"), "lastError", "error")
      b2 == SetPath(b1, "failedChecks", b1.doc.failedChecks + 1)
      b3 == SetPath(b2, "consecutiveFailures", b2.doc.consecutiveFailures + 1)
      b4 == IF wasOnline
            THEN SetPath(SetPath(b3, "lastStatusChangeAt", now), "lastDowntime", now)
            ELSE b3
      shouldSendInitialAlert ==
        b4.doc.consecutiveFailures >= AlertThreshold /\ prevFailures < AlertThreshold
      sent == shouldSendInitialAlert /\ b4.doc.alertsEnabled /\ u = "found"
      b5 == IF sent
            THEN SetPath(SetPath(b4, "lastAlertSentAt", now), "alertsSentCount", 1)
            ELSE b4
  IN [ s |-> b5, recoverySent |-> FALSE, initialSent |-> sent,
       statusChanged |-> wasOnline ]

\* Daily reminder, after either branch.  u is the outcome of User.findById.
ReminderStep(s, u, now) ==
  LET sent == s.doc.status = "offline" /\ shouldSendDailyReminder(s.doc, now)
                /\ u = "found"
  IN [ s |-> IF sent
             THEN SetPath(SetPath(s, "lastAlertSentAt", now),
                          "alertsSentCount", s.doc.alertsSentCount + 1)
             ELSE s,
       reminderSent |-> sent ]

\* Math.round(num / den) for num >= 0, den > 0: halves round up.
MathRound(num, den) == (2 * num + den) \div (2 * den)

\* The running average counts every check, whatever its verdict.
UpdateAverageEveryCheck(s, isUp, responseTime) ==
  LET n == s.doc.totalChecks IN
  SetPath(s, "averageResponseTime",
          IF n = 1 THEN responseTime
          ELSE MathRound(s.doc.averageResponseTime * (n - 1) + responseTime, n))

\* if (isUp) { averageResponseTime = ... }, after totalChecks was incremented.
UpdateAverage(s, isUp, responseTime) ==
  LET n == s.doc.totalChecks IN
  IF ~isUp THEN s
  ELSE SetPath(s, "averageResponseTime",
               IF n = 1 THEN responseTime
               ELSE MathRound(s.doc.averageResponseTime * (n - 1) + responseTime, n))

\* The try block from the probe's verdict and response time up to (not
\* including) save().
TryBlock(d, v, u1, u2, now, responseTime) ==
  LET s0 == [doc |-> d, dirty |-> {}]
      previousStatus == d.status
      previousConsecutiveFailures == d.consecutiveFailures
      s1 == SetPath(s0, "totalChecks", d.totalChecks + 1)
      br == IF v \in {"up", "upWarning"}
            THEN UpBranch(s1, previousStatus, v, u1, now)
            ELSE DownBranch(s1, previousStatus, previousConsecutiveFailures, u1, now)
      rm == ReminderStep(br.s, u2, now)
      av == UpdateAverage(rm.s, v \in {"up", "upWarning"}, responseTime)
  IN [ s |-> SetUptime(av), recoverySent |-> br.recoverySent,
       initialSent |-> br.initialSent, reminderSent |-> rm.reminderSent,
       statusChanged |-> br.statusChanged ]

\* ------------------------------------- checkSingleMonitor, the catch block
\* Runs on the document as the try block left it, up to its own save().
CatchBlock(s, now) ==
  LET previousStatus == s.doc.status
      c1 == SetPath(s, "totalChecks", s.doc.totalChecks + 1)
      c2 == SetPath(SetPath(c1, "status", "offline"), "lastError", "exception")
      c3 == SetPath(c2, "failedChecks", c2.doc.failedChecks + 1)
      c4 == SetPath(c3, "consecutiveFailures", c3.doc.consecutiveFailures + 1)
      c5 == SetUptime(c4)
  IN IF previousStatus # "offline"
     THEN SetPath(SetPath(c5, "lastStatusChangeAt", now), "lastDowntime", now)
     ELSE c5

\* ------------------------------------------------------ sessionManager.js
SESSION_TTL == 60      \* minutes (60 * 60 * 1000 ms)

EmptyCache == [k \in {} |-> Null]

\* getSession(monitorId) at time t: the entry returned (none: the empty
\* set) and the cache afterwards; an expired entry is deleted by the lookup.
getSessionNoExpiry(cache, k, t) ==
  IF k = Null THEN [found |-> {}, cache |-> cache]
  ELSE IF k \notin DOMAIN cache THEN [found |-> {}, cache |-> cache]
  ELSE [found |-> {cache[k]}, cache |-> cache]

getSession(cache, k, t) ==
  IF k = Null THEN [found |-> {}, cache |-> cache]
  ELSE IF k \notin DOMAIN cache THEN [found |-> {}, cache |-> cache]
  ELSE IF t > cache[k].expiresAt
       THEN [found |-> {}, cache |-> [j \in DOMAIN cache \ {k} |-> cache[j]]]
       ELSE [found |-> {cache[k]}, cache |-> cache]

\* setSession(monitorId, sessionId, capabilities, url) at time t, with the
\* default ttl (no caller passes one).
setSessionNoUrl(cache, k, sid, caps, url, t) ==
  IF k = Null \/ sid = Null THEN cache
  ELSE [j \in DOMAIN cache \cup {k} |->
          IF j = k
          THEN [sessionId |-> sid, capabilities |-> caps, url |-> Null,
                expiresAt |-> t + SESSION_TTL, createdAt |-> t]
          ELSE cache[j]]

setSession(cache, k, sid, caps, url, t) ==
  IF k = Null \/ sid = Null THEN cache
  ELSE [j \in DOMAIN cache \cup {k} |->
          IF j = k
          THEN [sessionId |-> sid, capabilities |-> caps, url |-> url,
                expiresAt |-> t + SESSION_TTL, createdAt |-> t]
          ELSE cache[j]]

clearSession(cache, k) ==
  IF k = Null THEN cache ELSE [j \in DOMAIN cache \ {k} |-> cache[j]]

\* cleanExpiredSessions() at time t.
cleanExpiredSessions(cache, t) ==
  [j \in {k \in DOMAIN cache : ~(t > cache[k].expiresAt)} |-> cache[j]]

\* A call: its arguments, the entry a lookup met under its key (none: the
\* empty set) and the entry it returned.
NoCall == [op |-> "none", key |-> Null, sid |-> Null, caps |-> Null, url |-> Null,
           met |-> {}, found |-> {}]

\* ---------------------------------------- mcp-client.js: the plain probe
\* What a POST to the target meets: a 2xx answer (a JSON-RPC 2.0 body with a
\* result or an error, a body that has "jsonrpc":"2.0" and neither, a JSON
\* body without the envelope, a body that does not parse, another content
\* type, no content type), an error status (401 stands for 401 and 403,
\* which no branch tells apart), or no answer at all.
Responses == {"json200", "bareEnvelope200", "badEnvelope200", "badJson200",
              "otherType200", "noType200", "http401", "http4xx", "http5xx",
              "dns", "refused", "reset", "timeout"}
ConnectionFailures == {"dns", "refused", "reset", "timeout"}
HttpErrors == {"http401", "http4xx", "http5xx"}

\* A probe result: success, warning, error and type as the probers set them;
\* authStatus is the property Monitor.updateStatus reads from a check result.
NoResult == [success |-> FALSE, warning |-> Null, error |-> Null, type |-> Null,
             authStatus |-> Null]

ConnectionError(r) ==
  CASE r = "timeout" -> "Request timeout"
    [] r = "dns" -> "DNS resolution failed - host not found"
    [] r = "refused" -> "Connection refused"
    [] OTHER -> "Connection reset"

\* `HTTP ${response.status}: ${response.statusText}`
HttpStatusText(r) ==
  CASE r = "http401" -> "HTTP 401"
    [] r = "http4xx" -> "HTTP 4xx"
    [] OTHER -> "HTTP 5xx"

testMCPConnectionStrict(r) ==
  IF r = "json200"
  THEN [NoResult EXCEPT !.success = TRUE]
  ELSE [NoResult EXCEPT !.error = "Connection failed"]

\* testMCPConnection(monitor) when the request meets r.
testMCPConnection(r) ==
  IF r \in ConnectionFailures
  THEN [NoResult EXCEPT !.error = ConnectionError(r)]
  ELSE IF r \in HttpErrors
  THEN [NoResult EXCEPT !.success = TRUE, !.warning = HttpStatusText(r),
                        !.type = "http-error"]
  ELSE IF r \in {"json200", "bareEnvelope200", "badEnvelope200", "badJson200"}
  THEN IF r = "badJson200"
       THEN [NoResult EXCEPT !.error = "Failed to parse JSON response"]
       ELSE IF r = "badEnvelope200"
       THEN [NoResult EXCEPT !.error = "Invalid JSON-RPC response format"]
       ELSE [NoResult EXCEPT !.success = TRUE]
  ELSE [NoResult EXCEPT !.error = IF r = "otherType200" THEN "Unsupported content type"
                                  ELSE "Missing content-type header"]

\* -------------------------------------- mcp-client.js: the session probe
\* What the target does with the requests of one check: the initialize
\* handshake and the one repeated after a failed discovery (answered with a
\* session id, answered without one, an error status, a 401 or 403, a
\* JSON-RPC error, no answer), the first tools/list request and the one after a re-handshake
\* (answered, an error status, a JSON-RPC error naming the session, another
\* JSON-RPC error, no answer).
InitKinds == {"ok", "okNoId", "http", "http401", "rpcError", "net"}
ToolsKinds == {"ok", "http", "session", "rpcError", "net"}
Targets == [init : InitKinds, tools : ToolsKinds, init2 : InitKinds, tools2 : ToolsKinds]
NoTarget == [init |-> "none", tools |-> "none", init2 |-> "none", tools2 |-> "none"]
\* Targets that answer every handshake of a check alike.
SteadyTargets == {g \in Targets : g.init2 = g.init}

\* The session id the server at a URL issues, and the URL that issued an id.
SessionIdOf(url) == IF url = "urlA" THEN "sidA" ELSE "sidB"
IssuedBy(sid) == IF sid = "sidA" THEN "urlA" ELSE "urlB"

\* initializeMCPSession(monitor): the result, the requests made, and the
\* (url, Mcp-Session-Id) pairs of the requests that carried a session id.
initializeMCPSession(url, kind) ==
  CASE kind = "ok" ->
         [success |-> TRUE, sessionId |-> SessionIdOf(url), capabilities |-> "caps",
          error |-> Null, requests |-> 2, sent |-> {<<url, SessionIdOf(url)>>}]
    [] kind = "okNoId" ->
         [success |-> TRUE, sessionId |-> Null, capabilities |-> "caps",
          error |-> Null, requests |-> 2, sent |-> {}]
    [] kind \in {"http", "http401"} ->
         [success |-> FALSE, sessionId |-> Null, capabilities |-> Null,
          error |-> IF kind = "http401" THEN "HTTP 401" ELSE "HTTP 5xx",
          requests |-> 1, sent |-> {}]
    [] kind = "rpcError" ->
         [success |-> FALSE, sessionId |-> Null, capabilities |-> Null,
          error |-> "Initialize failed", requests |-> 1, sent |-> {}]
    [] OTHER ->
         [success |-> FALSE, sessionId |-> Null, capabilities |-> Null,
          error |-> "fetch failed", requests |-> 1, sent |-> {}]

\* discoverTools(monitor, sessionId).
discoverTools(url, sid, kind) ==
  [ success |-> kind = "ok",
    error |-> CASE kind = "ok" -> Null
                [] kind = "http" -> "HTTP 5xx"
                [] kind = "session" -> "Invalid session"
                [] kind = "rpcError" -> "Tool discovery failed"
                [] OTHER -> "fetch failed",
    sent |-> IF sid = Null THEN {} ELSE {<<url, sid>>} ]

\* error.includes("session") || error.includes("401") || error.includes("HTTP")
LooksSessionRelatedByName(error) == error = "Invalid session"

LooksSessionRelated(error) == error \in {"HTTP 5xx", "Invalid session"}

\* cachedSession && cachedSession.url === monitor.url
SessionUsableAnyUrl(found, url) == found # {}

SessionUsable(found, url) == found # {} /\ \A e \in found : e.url = url

\* testMCPConnectionWithTools(monitor) for monitor k with the given url and
\* toolsSyncEnabled, on the cache at time t, against a target behaving as
\* tgt: the verdict, the cache afterwards, and what the probe met and sent.
\* (Its catch block is not modelled: every call it makes returns a result.)
testMCPConnectionWithTools(k, url, toolsSync, cache, t, tgt) ==
  LET g == getSession(cache, k, t)
      hit == SessionUsable(g.found, url)
      stale == g.found # {} /\ ~hit
      cachedUrl == IF g.found = {} THEN Null ELSE (CHOOSE e \in g.found : TRUE).url
      c1 == IF stale THEN clearSession(g.cache, k) ELSE g.cache
      init == initializeMCPSession(url, tgt.init)
      sid1 == IF hit THEN (CHOOSE e \in g.found : TRUE).sessionId ELSE init.sessionId
      c2 == IF hit THEN c1
            ELSE setSession(c1, k, init.sessionId, init.capabilities, url, t)
      hs1 == IF hit THEN 0 ELSE 1
      rq1 == IF hit THEN 0 ELSE init.requests
      st1 == IF hit THEN {} ELSE init.sent
      tr == discoverTools(url, sid1, tgt.tools)
      c3 == clearSession(c2, k)
      re == initializeMCPSession(url, tgt.init2)
      c4 == setSession(c3, k, re.sessionId, re.capabilities, url, t)
      tr2 == discoverTools(url, re.sessionId, tgt.tools2)
      out(ok, err, c, hs, rq, st, ds, inv) ==
        [ success |-> ok, warning |-> Null, error |-> err, type |-> Null,
          authStatus |-> Null, cache |-> c,
          cachedUrl |-> cachedUrl, reused |-> hit, cleared |-> stale,
          handshakes |-> hs, requests |-> rq, sent |-> st,
          discoveries |-> ds, invalidated |-> inv ]
  IN IF ~hit /\ ~init.success
     THEN out(FALSE, init.error, c1, 1, init.requests, init.sent, 0, FALSE)
     ELSE IF ~toolsSync
     THEN out(TRUE, Null, c2, hs1, rq1, st1, 0, FALSE)
     ELSE IF tr.success \/ ~LooksSessionRelated(tr.error)
     THEN out(TRUE, Null, c2, hs1, rq1 + 1, st1 \cup tr.sent, 1, FALSE)
     ELSE IF ~re.success
     THEN out(FALSE, re.error, c3, hs1 + 1, rq1 + 1 + re.requests,
              st1 \cup tr.sent \cup re.sent, 1, TRUE)
     ELSE IF tr2.success
     THEN out(TRUE, Null, c4, hs1 + 1, rq1 + 2 + re.requests,
              st1 \cup tr.sent \cup re.sent \cup tr2.sent, 2, TRUE)
     ELSE out(FALSE, tr2.error, c4, hs1 + 1, rq1 + 2 + re.requests,
              st1 \cup tr.sent \cup re.sent \cup tr2.sent, 2, TRUE)

\* What a check's probe met and did: the path taken, the answer (plain) or
\* the target's behaviour (session), the monitor's url, the url of the cached
\* entry the lookup returned, whether it was reused or cleared as stale, the
\* handshakes and requests made, the (url, session id) pairs sent, the calls
\* of the probe function the check made, the tools/list requests made and
\* whether the session was cleared after a failed one, the result.
NoProbe ==
  [ path |-> "none", resp |-> "none", tgt |-> NoTarget, url |-> Null,
    cachedUrl |-> Null, reused |-> FALSE, cleared |-> FALSE,
    handshakes |-> 0, requests |-> 0, sent |-> {}, attempts |-> 0,
    discoveries |-> 0, invalidated |-> FALSE,
    success |-> FALSE, warning |-> Null, error |-> Null, type |-> Null,
    authStatus |-> Null ]

\* result.success, result.warning as checkSingleMonitor reads them.
VerdictOf(res) ==
  IF ~res.success THEN "down" ELSE IF res.warning # Null THEN "upWarning" ELSE "up"

\* ------------------------------------- mcp-client.js: the retry wrapper
Min(a, b) == IF a < b THEN a ELSE b

\* The delay before the attempt after a failed attempt.
BackoffUncapped(attempt) == BackoffBaseMs * 2^(attempt - 1)

Backoff(attempt) == Min(BackoffBaseMs * 2^(attempt - 1), BackoffCapMs)

\* for (attempt = 1; attempt <= maxAttempts; attempt++)
LoopContinuesOneMore(attempt, maxAttempts) == attempt <= maxAttempts + 1

LoopContinues(attempt, maxAttempts) == attempt <= maxAttempts

\* if (attempt < maxAttempts): wait before retrying.
WaitsBeforeRetry(attempt, maxAttempts) == attempt < maxAttempts

\* A call of testMCPConnectionWithRetry: the loop's position, the probe calls
\* made, the failed results among them, the waits made, what the last probe
\* met and returned, and the value returned.
NoRetry ==
  [ pc |-> "idle", retryAttempts |-> 0, maxAttempts |-> 0, attempt |-> 0,
    calls |-> 0, failed |-> 0, delays |-> << >>, resp |-> "none",
    lastResult |-> NoResult, returned |-> NoResult, attempts |-> 0 ]

\* ---------------------------------------------------- securityScheduler.js
ScanKinds == {"scheduled", "immediate"}

\* The module after import: no cron job, isRunning false, no run yet.
\* lastRunTime is the number of the run that set it (0: null).  History:
\* the runs in flight per kind, what the last call did and the value of
\* isRunning it met.
NoScan ==
  [ securityScanJob |-> FALSE, isRunning |-> FALSE, lastRunTime |-> 0,
    lastRunSummary |-> Null, inFlight |-> [k \in ScanKinds |-> 0],
    last |-> "none", flagBefore |-> FALSE ]

RunsInFlight == scan.inFlight["scheduled"] + scan.inFlight["immediate"]

ScanNeverBusy(isRunning) == FALSE

\* if (isRunning)
ScanBusy(isRunning) == isRunning

\* ------------------------------------------------------------ check state
\* A checkSingleMonitor call: its position, its document with the modified
\* paths, the document as loaded, the probe's verdict, what it dispatched
\* (with, as history, the hours since the previous down alert and the down
\* alerts of the episode before it ran, the outcomes of its user lookups),
\* how it ended, and its calls of broadcastMonitorUpdate.
NoCheck ==
  [ pc |-> "none", doc |-> NewMonitor, dirty |-> {}, orig |-> NewMonitor,
    verdict |-> "none", statusChanged |-> FALSE,
    initialSent |-> FALSE, reminderSent |-> FALSE, recoverySent |-> FALSE,
    hoursSinceSent |-> NoTime, alertsBefore |-> 0,
    lookup1 |-> "none", lookup2 |-> "none",
    path |-> "none", isUp |-> FALSE, published |-> 0, responseTime |-> 0 ]

IdleTick == [state |-> "idle", kind |-> "none", loaded |-> {}]

\* Response times (ms) a probe can take, and the shortest of them.
Latencies == {100, 250, 400}
BaseLatency == CHOOSE l \in Latencies : \A k \in Latencies : l <= k

Max(a, b) == IF a > b THEN a ELSE b

\* No reachable verdict yet.
NoSpan == [ups |-> 0, min |-> 0, max |-> 0]

IsUp(v) == v \in {"up", "upWarning"}

\* A check of monitor m is in flight in some tick.
InFlight(m) == {t \in TickIds : chk[t][m].pc \in {"probing", "saving", "catchSaving"}}

AllIdle == \A t \in TickIds : tick[t].state = "idle"

\* The lowest free slot (slots are interchangeable).
FreeSlot(t) ==
  /\ tick[t].state = "idle"
  /\ \A u \in TickIds : u < t => tick[u].state # "idle"

Init ==
  /\ db = [m \in Monitors |-> IF m \in Watched THEN NewMonitor ELSE PausedMonitor]
  /\ tick = [t \in TickIds |-> IdleTick]
  /\ chk = [t \in TickIds |-> [m \in Monitors |-> NoCheck]]
  /\ clock = 0
  /\ immediateRun = FALSE
  /\ checksStarted = [m \in Monitors |-> 0]
  /\ failRun = [m \in Monitors |-> 0]
  /\ downSince = [m \in Monitors |-> NoTime]
  /\ initialInRun = [m \in Monitors |-> 0]
  /\ recovSinceOffline = [m \in Monitors |-> 0]
  /\ episodeAlerts = [m \in Monitors |-> 0]
  /\ lastSentAt = [m \in Monitors |-> NoTime]
  /\ alertable = [m \in Monitors |-> TRUE]
  /\ latencySpan = [m \in Monitors |-> NoSpan]
  /\ sessionCache = EmptyCache
  /\ nowMin = 0
  /\ call = NoCall
  /\ probe = [t \in TickIds |-> [m \in Monitors |-> NoProbe]]
  /\ retry = NoRetry
  /\ scan = NoScan

\* ------------------------------------------------------- checkAllMonitors
\* Monitor.find({isActive: true}) and the fan-out: one checkSingleMonitor
\* per loaded monitor, each on its own copy of the stored document.
FindAll == Monitors

\* Monitor.find({ isActive: true })
FindActive == {m \in Monitors : db[m].isActive}

StartTick(t, kind) ==
  LET loaded == FindActive IN
  /\ FreeSlot(t)
  /\ \A m \in loaded : checksStarted[m] < MaxChecks
  /\ tick' = [tick EXCEPT ![t] = [state |-> "running", kind |-> kind, loaded |-> loaded]]
  /\ chk' = [chk EXCEPT ![t] =
       [m \in Monitors |->
          IF m \in loaded
          THEN [NoCheck EXCEPT !.pc = "probing", !.doc = db[m], !.orig = db[m]]
          ELSE NoCheck]]
  /\ checksStarted' = [m \in Monitors |->
                         IF m \in loaded THEN checksStarted[m] + 1 ELSE checksStarted[m]]
  /\ UNCHANGED <<db, clock, failRun, downSince, initialInRun, recovSinceOffline,
                 episodeAlerts, lastSentAt, alertable, latencySpan>>
  /\ UNCHANGED <<clientVars, probe>>

\* index.js: runImmediateCheck() right after startScheduler().
RunImmediateCheck(t) ==
  /\ ~immediateRun
  /\ immediateRun' = TRUE
  /\ StartTick(t, "immediate")

\* scheduler.js: the setInterval callback.  It has no in-flight test.
TimerFire(t) ==
  /\ immediateRun
  /\ UNCHANGED immediateRun
  /\ StartTick(t, "scheduled")

\* Promise.allSettled has settled every check of the tick.
TickEnd(t) ==
  /\ tick[t].state = "running"
  /\ \A m \in tick[t].loaded : chk[t][m].pc \in {"done", "threw"}
  /\ tick' = [tick EXCEPT ![t] = IdleTick]
  /\ chk' = [chk EXCEPT ![t] = [m \in Monitors |-> NoCheck]]
  /\ probe' = [probe EXCEPT ![t] = [m \in Monitors |-> NoProbe]]
  /\ UNCHANGED <<db, clock, immediateRun>>
  /\ UNCHANGED ghosts
  /\ UNCHANGED clientVars

\* The tally of checkAllMonitors once Promise.allSettled has settled: a
\* fulfilled check contributes its result and counts as successful when
\* isUp, as failed otherwise; a rejected one counts as failed and contributes
\* an offline entry built from the monitor.
Settled(t) ==
  /\ tick[t].state = "running"
  /\ \A m \in tick[t].loaded : chk[t][m].pc \in {"done", "threw"}

Loaded(t) == SelectSeq(MonitorOrder, LAMBDA m : m \in tick[t].loaded)

TallyEntry(c, m) ==
  IF c.pc = "done"
  THEN [monitorId |-> m, status |-> c.doc.status, isUp |-> c.isUp, settled |-> "fulfilled"]
  ELSE [monitorId |-> m, status |-> "offline", isUp |-> FALSE, settled |-> "rejected"]

TallyFulfilledOnly(t) ==
  LET ms == SelectSeq(Loaded(t), LAMBDA m : chk[t][m].pc = "done")
      results == [i \in 1..Len(ms) |-> TallyEntry(chk[t][ms[i]], ms[i])]
  IN [ successful |-> Cardinality({i \in 1..Len(ms) : results[i].isUp}),
       failed |-> Cardinality({i \in 1..Len(ms) : ~results[i].isUp}),
       total |-> Len(Loaded(t)),
       results |-> results ]

Tally(t) ==
  LET ms == Loaded(t)
      results == [i \in 1..Len(ms) |-> TallyEntry(chk[t][ms[i]], ms[i])]
      fulfilled == {i \in 1..Len(ms) : results[i].settled = "fulfilled"}
      rejected == {i \in 1..Len(ms) : results[i].settled = "rejected"}
  IN [ successful |-> Cardinality({i \in fulfilled : results[i].isUp}),
       failed |-> Cardinality({i \in fulfilled : ~results[i].isUp}) + Cardinality(rejected),
       total |-> Len(ms),
       results |-> results ]

\* ----------------------------------------------------- checkSingleMonitor
\* testMCPConnectionWithTools has returned verdict v after responseTime ms;
\* the try block runs up to save().  u1, u2 are the outcomes of the
\* User.findById calls.
ProbeTimed(t, m, v, u1, u2, responseTime) ==
  LET c == chk[t][m]
      r == TryBlock(c.doc, v, u1, u2, clock, responseTime)
      sp == latencySpan[m]
      down == r.initialSent \/ r.reminderSent
  IN
  /\ c.pc = "probing"
  /\ chk' = [chk EXCEPT ![t][m] =
       [c EXCEPT !.pc = "saving", !.doc = r.s.doc, !.dirty = r.s.dirty,
                 !.verdict = v, !.statusChanged = r.statusChanged,
                 !.initialSent = r.initialSent, !.reminderSent = r.reminderSent,
                 !.recoverySent = r.recoverySent,
                 !.hoursSinceSent = IF lastSentAt[m] = NoTime THEN NoTime
                                    ELSE (clock - lastSentAt[m]) * HoursPerUnit,
                 !.alertsBefore = episodeAlerts[m],
                 !.lookup1 = u1, !.lookup2 = u2, !.responseTime = responseTime]]
  /\ initialInRun' = [initialInRun EXCEPT ![m] = @ + (IF r.initialSent THEN 1 ELSE 0)]
  /\ recovSinceOffline' = [recovSinceOffline EXCEPT ![m] = @ + (IF r.recoverySent THEN 1 ELSE 0)]
  /\ episodeAlerts' = [episodeAlerts EXCEPT ![m] = @ + (IF down THEN 1 ELSE 0)]
  /\ lastSentAt' = [lastSentAt EXCEPT ![m] = IF down THEN clock ELSE @]
  /\ alertable' = [alertable EXCEPT ![m] =
       @ /\ c.doc.alertsEnabled /\ c.doc.notifyOnRecovery /\ u1 = "found" /\ u2 = "found"]
  /\ latencySpan' = [latencySpan EXCEPT ![m] =
       IF ~IsUp(v) THEN @
       ELSE [ups |-> Min(sp.ups + 1, 1),
             min |-> IF sp.ups = 0 THEN responseTime ELSE Min(sp.min, responseTime),
             max |-> IF sp.ups = 0 THEN responseTime ELSE Max(sp.max, responseTime)]]
  /\ UNCHANGED <<db, tick, clock, immediateRun, checksStarted, failRun, downSince>>

\* The same with the response time of a probe of the nearest target.
ProbeDone(t, m, v, u1, u2) == ProbeTimed(t, m, v, u1, u2, BaseLatency)

\* The check probes with testMCPConnection (monitoring.js:30) and the
\* request meets r.
ProbePlain(t, m, r, u1, u2) ==
  LET res == testMCPConnection(r) IN
  /\ ProbeDone(t, m, VerdictOf(res), u1, u2)
  /\ probe' = [probe EXCEPT ![t][m] =
       [NoProbe EXCEPT !.path = "plain", !.resp = r, !.url = chk[t][m].doc.url,
                       !.requests = 1, !.attempts = 1, !.success = res.success,
                       !.warning = res.warning, !.error = res.error,
                       !.type = res.type, !.authStatus = res.authStatus]]
  /\ UNCHANGED clientVars

\* The check probes with testMCPConnectionWithTools (monitoring.js:363)
\* against a target behaving as tgt.  The probe's steps are taken together.
ProbeSession(t, m, tgt, u1, u2) ==
  LET d == chk[t][m].doc
      res == testMCPConnectionWithTools(m, d.url, d.toolsSyncEnabled,
                                        sessionCache, nowMin, tgt)
  IN
  /\ ProbeDone(t, m, VerdictOf(res), u1, u2)
  /\ sessionCache' = res.cache
  /\ call' = NoCall
  /\ probe' = [probe EXCEPT ![t][m] =
       [NoProbe EXCEPT !.path = "session", !.tgt = tgt, !.url = d.url,
                       !.cachedUrl = res.cachedUrl, !.reused = res.reused,
                       !.cleared = res.cleared, !.handshakes = res.handshakes,
                       !.requests = res.requests, !.sent = res.sent,
                       !.attempts = 1, !.discoveries = res.discoveries,
                       !.invalidated = res.invalidated,
                       !.success = res.success, !.warning = res.warning,
                       !.error = res.error, !.type = res.type,
                       !.authStatus = res.authStatus]]
  /\ UNCHANGED <<nowMin, retry, scan>>

\* History kept when a check of m ends; stored is the persisted document
\* after the check.
EndOfCheck(t, m, outcome, stored) ==
  LET c == chk[t][m] IN
  /\ failRun' = [failRun EXCEPT ![m] = IF IsUp(c.verdict) THEN 0 ELSE @ + 1]
  /\ downSince' = [downSince EXCEPT ![m] =
       IF IsUp(c.verdict) THEN NoTime ELSE IF failRun[m] = 0 THEN clock ELSE @]
  /\ initialInRun' = [initialInRun EXCEPT ![m] =
       IF outcome = "returned" /\ stored.consecutiveFailures = 0 THEN 0 ELSE @]
  /\ recovSinceOffline' = [recovSinceOffline EXCEPT ![m] =
       IF outcome = "returned" /\ stored.status = "offline" THEN 0 ELSE @]
  /\ episodeAlerts' = [episodeAlerts EXCEPT ![m] =
       IF outcome = "returned" /\ stored.status = "online" THEN 0 ELSE @]
  /\ UNCHANGED <<checksStarted, lastSentAt, alertable, latencySpan>>

\* save() in the try block succeeds; the update is broadcast and the
\* checkResult returned.
SaveOk(t, m) ==
  LET c == chk[t][m]
      stored == SaveDoc(db[m], c)
  IN
  /\ c.pc = "saving"
  /\ db' = [db EXCEPT ![m] = stored]
  /\ chk' = [chk EXCEPT ![t][m] =
       [c EXCEPT !.pc = "done", !.path = "try", !.isUp = IsUp(c.verdict),
                 !.published = @ + 1]]
  /\ EndOfCheck(t, m, "returned", stored)
  /\ UNCHANGED <<tick, clock, immediateRun>>
  /\ UNCHANGED <<clientVars, probe>>

\* save() in the try block rejects: control enters the catch block, which
\* updates the same document again and reaches its own save().
SaveFail(t, m) ==
  LET c == chk[t][m]
      s == CatchBlock([doc |-> c.doc, dirty |-> c.dirty], clock)
  IN
  /\ c.pc = "saving"
  /\ chk' = [chk EXCEPT ![t][m] =
       [c EXCEPT !.pc = "catchSaving", !.doc = s.doc, !.dirty = s.dirty]]
  /\ UNCHANGED <<db, tick, clock, immediateRun>>
  /\ UNCHANGED ghosts
  /\ UNCHANGED <<clientVars, probe>>

\* save() in the catch block succeeds; the errorResult is returned.
CatchSaveOk(t, m) ==
  LET c == chk[t][m]
      stored == SaveDoc(db[m], c)
  IN
  /\ c.pc = "catchSaving"
  /\ db' = [db EXCEPT ![m] = stored]
  /\ chk' = [chk EXCEPT ![t][m] =
       [c EXCEPT !.pc = "done", !.path = "catch", !.isUp = FALSE,
                 !.published = @ + 1]]
  /\ EndOfCheck(t, m, "returned", stored)
  /\ UNCHANGED <<tick, clock, immediateRun>>
  /\ UNCHANGED <<clientVars, probe>>

\* save() in the catch block rejects: nothing encloses it, the promise of
\* checkSingleMonitor rejects.
CatchSaveFail(t, m) ==
  /\ chk[t][m].pc = "catchSaving"
  /\ chk' = [chk EXCEPT ![t][m].pc = "threw", ![t][m].path = "catch"]
  /\ EndOfCheck(t, m, "threw", db[m])
  /\ UNCHANGED <<db, tick, clock, immediateRun>>
  /\ UNCHANGED <<clientVars, probe>>

\* ------------------------------------------------------ monitorController
pauseMonitor(m) ==
  /\ db' = [db EXCEPT ![m].status = "paused", ![m].isActive = FALSE]
  /\ UNCHANGED <<tick, chk, clock, immediateRun>>
  /\ UNCHANGED ghosts
  /\ UNCHANGED <<clientVars, probe>>

resumeMonitor(m) ==
  /\ db' = [db EXCEPT ![m].status = "unknown", ![m].isActive = TRUE]
  /\ UNCHANGED <<tick, chk, clock, immediateRun>>
  /\ UNCHANGED ghosts
  /\ UNCHANGED <<clientVars, probe>>

\* updateMonitor with one of the fields of allowedUpdates in the body.
updateMonitorResetsStatus(m, f, b) ==
  /\ db[m][f] # b
  /\ db' = [db EXCEPT ![m][f] = b, ![m].status = "unknown"]
  /\ UNCHANGED <<tick, chk, clock, immediateRun>>
  /\ UNCHANGED ghosts
  /\ UNCHANGED <<clientVars, probe>>

updateMonitor(m, f, b) ==
  /\ db[m][f] # b
  /\ db' = [db EXCEPT ![m][f] = b]
  /\ UNCHANGED <<tick, chk, clock, immediateRun>>
  /\ UNCHANGED ghosts
  /\ UNCHANGED <<clientVars, probe>>

\* ------------------------------------------------------------------ time
\* Half a day passes.  A check lasts minutes, so none is in flight across it.
AdvanceClock ==
  /\ clock < MaxClock
  /\ AllIdle
  /\ clock' = clock + 1
  /\ UNCHANGED <<db, tick, chk, immediateRun>>
  /\ UNCHANGED ghosts
  /\ UNCHANGED <<clientVars, probe>>

\* -------------------------------------------- sessionManager.js, its calls
\* A call of setSession; capabilities and url default to null.
SessionSet(k, sid, caps, url) ==
  /\ sessionCache' = setSession(sessionCache, k, sid, caps, url, nowMin)
  /\ call' = [NoCall EXCEPT !.op = "set", !.key = k, !.sid = sid, !.caps = caps,
                            !.url = url]
  /\ UNCHANGED <<engineVars, nowMin, probe, retry, scan>>

SessionGet(k) ==
  LET g == getSession(sessionCache, k, nowMin) IN
  /\ sessionCache' = g.cache
  /\ call' = [NoCall EXCEPT !.op = "get", !.key = k, !.found = g.found,
                            !.met = IF k \in DOMAIN sessionCache
                                     THEN {sessionCache[k]} ELSE {}]
  /\ UNCHANGED <<engineVars, nowMin, probe, retry, scan>>

SessionClear(k) ==
  /\ sessionCache' = clearSession(sessionCache, k)
  /\ call' = [NoCall EXCEPT !.op = "clear", !.key = k]
  /\ UNCHANGED <<engineVars, nowMin, probe, retry, scan>>

\* setInterval(cleanExpiredSessions, 15 min).
SessionSweep ==
  /\ sessionCache' = cleanExpiredSessions(sessionCache, nowMin)
  /\ call' = [NoCall EXCEPT !.op = "sweep"]
  /\ UNCHANGED <<engineVars, nowMin, probe, retry, scan>>

\* Half an hour passes on the session manager's clock.
AdvanceNow ==
  /\ nowMin < MaxSessionSteps * MinutesPerStep
  /\ nowMin' = nowMin + MinutesPerStep
  /\ call' = NoCall
  /\ UNCHANGED <<engineVars, sessionCache, probe, retry, scan>>

\* -------------------------------------------- testMCPConnectionWithRetry
\* The wrapper is called for a monitor with retryAttempts = n and makes its
\* first probe call.
RetryStart(n) ==
  LET maxAttempts == IF n = 0 THEN DefaultRetryAttempts ELSE n IN
  /\ retry.pc \in {"idle", "returned"}
  /\ LoopContinues(1, maxAttempts)
  /\ retry' = [NoRetry EXCEPT !.pc = "probing", !.retryAttempts = n,
                              !.maxAttempts = maxAttempts, !.attempt = 1, !.calls = 1]
  /\ UNCHANGED <<engineVars, sessionCache, nowMin, call, probe, scan>>

\* The probe call returns, having met r: return on success, else wait and
\* go round the loop, or leave the loop after the last attempt.
RetryProbeDone(r) ==
  LET res == testMCPConnection(r)
      seen == [retry EXCEPT !.resp = r, !.lastResult = res,
                            !.failed = IF res.success THEN @ ELSE @ + 1]
  IN
  /\ retry.pc = "probing"
  /\ retry' =
       IF res.success
       THEN [seen EXCEPT !.pc = "returned", !.returned = res, !.attempts = retry.attempt]
       ELSE IF WaitsBeforeRetry(retry.attempt, retry.maxAttempts)
       THEN [seen EXCEPT !.pc = "waiting",
                         !.delays = Append(@, Backoff(retry.attempt))]
       ELSE IF LoopContinues(retry.attempt + 1, retry.maxAttempts)
       THEN [seen EXCEPT !.pc = "probing", !.attempt = @ + 1, !.calls = @ + 1]
       ELSE [seen EXCEPT !.pc = "returned", !.returned = res,
                         !.attempts = retry.maxAttempts]
  /\ UNCHANGED <<engineVars, sessionCache, nowMin, call, probe, scan>>

\* The wait ends: the next iteration makes its probe call, or the loop ends.
RetryTimer ==
  /\ retry.pc = "waiting"
  /\ retry' =
       IF LoopContinues(retry.attempt + 1, retry.maxAttempts)
       THEN [retry EXCEPT !.pc = "probing", !.attempt = @ + 1, !.calls = @ + 1]
       ELSE [retry EXCEPT !.pc = "returned", !.returned = retry.lastResult,
                          !.attempts = retry.maxAttempts]
  /\ UNCHANGED <<engineVars, sessionCache, nowMin, call, probe, scan>>

\* ---------------------------------------------------- securityScheduler.js
startSecurityScheduler ==
  /\ ~scan.securityScanJob
  /\ scan' = [scan EXCEPT !.securityScanJob = TRUE, !.last = "scheduled",
                          !.flagBefore = scan.isRunning]
  /\ UNCHANGED <<engineVars, sessionCache, nowMin, call, probe, retry>>

stopSecurityScheduler ==
  /\ scan.securityScanJob
  /\ scan' = [scan EXCEPT !.securityScanJob = FALSE, !.last = "stopped",
                          !.flagBefore = scan.isRunning]
  /\ UNCHANGED <<engineVars, sessionCache, nowMin, call, probe, retry>>

\* The first statements of a run, up to the await of scanAllMonitors().
ScanStarts(kind) ==
  [scan EXCEPT !.isRunning = TRUE, !.lastRunTime = @ + 1,
               !.inFlight[kind] = @ + 1, !.last = "started",
               !.flagBefore = scan.isRunning]

\* The cron callback fires: it returns at once while a run is in progress.
ScanTimerFire ==
  /\ scan.securityScanJob
  /\ scan' = IF ScanBusy(scan.isRunning)
             THEN [scan EXCEPT !.last = "skipped", !.flagBefore = scan.isRunning]
             ELSE ScanStarts("scheduled")
  /\ scan'.lastRunTime <= MaxScanRuns
  /\ UNCHANGED <<engineVars, sessionCache, nowMin, call, probe, retry>>

\* runImmediateSecurityScan() is called: it throws while a run is in
\* progress.
runImmediateSecurityScan ==
  /\ scan' = IF ScanBusy(scan.isRunning)
             THEN [scan EXCEPT !.last = "rejected", !.flagBefore = scan.isRunning]
             ELSE ScanStarts("immediate")
  /\ scan'.lastRunTime <= MaxScanRuns
  /\ UNCHANGED <<engineVars, sessionCache, nowMin, call, probe, retry>>

\* scanAllMonitors() of a run of the given kind settles, with a summary or
\* by throwing; catch and finally run.
ScanSettles(kind, threw) ==
  /\ scan.inFlight[kind] > 0
  /\ scan' = [scan EXCEPT !.isRunning = FALSE,
                          !.lastRunSummary = IF threw THEN "error" ELSE "summary",
                          !.inFlight[kind] = @ - 1,
                          !.last = IF threw THEN "threw" ELSE "completed",
                          !.flagBefore = scan.isRunning]
  /\ UNCHANGED <<engineVars, sessionCache, nowMin, call, probe, retry>>

\* ---------------------------------------------------------- specification
CheckStep ==
  \E t \in TickIds, m \in Monitors :
    \/ \E r \in Responses, u1 \in UserLookups, u2 \in UserLookups :
         ProbePlain(t, m, r, u1, u2)
    \/ \E tgt \in Targets, u1 \in UserLookups, u2 \in UserLookups :
         ProbeSession(t, m, tgt, u1, u2)
    \/ \E v \in Verdicts, l \in Latencies, u1 \in UserLookups, u2 \in UserLookups :
         ProbeTimed(t, m, v, u1, u2, l) /\ UNCHANGED <<clientVars, probe>>
    \/ SaveOk(t, m)
    \/ SaveFail(t, m)
    \/ CatchSaveOk(t, m)
    \/ CatchSaveFail(t, m)

ControllerStep ==
  \E m \in Monitors :
    \/ pauseMonitor(m)
    \/ resumeMonitor(m)
    \/ \E f \in UpdatableFlags, b \in BOOLEAN : updateMonitor(m, f, b)
    \/ \E u \in Urls : updateMonitor(m, "url", u)

Next ==
  \/ \E t \in TickIds : RunImmediateCheck(t)
  \/ \E t \in TickIds : TimerFire(t)
  \/ \E t \in TickIds : TickEnd(t)
  \/ CheckStep
  \/ ControllerStep
  \/ AdvanceClock
  \/ SessionSweep
  \/ AdvanceNow

Spec == Init /\ [][Next]_vars

\* ------------------------------------------- restrictions of the full Spec
\* Each restriction takes a subset of the steps of Next, so every behaviour
\* of a restricted specification is a behaviour of Spec.
PlainVerdicts == {"up", "down"}

\* Probes answer up or down without a warning (as a probe does for a valid
\* answer and for no answer); every user lookup succeeds; the probe's
\* history is not kept.
PlainProbe ==
  \E t \in TickIds, m \in Monitors, v \in PlainVerdicts :
    /\ ProbeDone(t, m, v, "found", "found")
    /\ UNCHANGED <<clientVars, probe>>

\* A tick starts only when no other is in flight.
StartAlone ==
  /\ AllIdle
  /\ \E t \in TickIds : RunImmediateCheck(t) \/ TimerFire(t)

\* Ticks one at a time, with save() allowed to reject.
FaultNext ==
  \/ StartAlone
  \/ \E t \in TickIds : TickEnd(t)
  \/ PlainProbe
  \/ \E t \in TickIds, m \in Monitors :
       SaveOk(t, m) \/ SaveFail(t, m) \/ CatchSaveOk(t, m) \/ CatchSaveFail(t, m)

FaultSpec == Init /\ [][FaultNext]_vars

\* Ticks as the timer starts them, overlapping; save() never rejects.
OverlapNext ==
  \/ \E t \in TickIds : RunImmediateCheck(t)
  \/ \E t \in TickIds : TimerFire(t)
  \/ \E t \in TickIds : TickEnd(t)
  \/ PlainProbe
  \/ \E t \in TickIds, m \in Monitors : SaveOk(t, m)
  \/ AdvanceClock

OverlapSpec == Init /\ [][OverlapNext]_vars

\* Ticks one at a time, save() never rejects, the owner pauses and resumes.
PauseNext ==
  \/ StartAlone
  \/ \E t \in TickIds : TickEnd(t)
  \/ PlainProbe
  \/ \E t \in TickIds, m \in Monitors : SaveOk(t, m)
  \/ \E m \in Watched : pauseMonitor(m) \/ resumeMonitor(m)
  \/ AdvanceClock

PauseSpec == Init /\ [][PauseNext]_vars

\* The flags of allowedUpdates that the check and the tick read.
EngineFlags == {"isActive", "alertsEnabled", "notifyOnRecovery"}

\* Ticks one at a time, save() never rejects; the owner pauses, resumes and
\* updates the monitor's flags, also while a check is in flight.
ControlNext ==
  \/ StartAlone /\ \A m \in Monitors : checksStarted[m] < MaxControlChecks
  \/ \E t \in TickIds : TickEnd(t)
  \/ PlainProbe
  \/ \E t \in TickIds, m \in Monitors : SaveOk(t, m)
  \/ \E m \in Watched : pauseMonitor(m) \/ resumeMonitor(m)
  \/ AdvanceClock
  \/ \E m \in Watched, f \in EngineFlags, b \in BOOLEAN : updateMonitor(m, f, b)

ControlSpec == Init /\ [][ControlNext]_vars

\* Ticks one at a time over both monitors (the owner resumes the paused
\* one), with save() allowed to reject.
TallyNext ==
  \/ StartAlone /\ \A m \in Monitors : checksStarted[m] < MaxTallyTicks
  \/ \E t \in TickIds : TickEnd(t)
  \/ PlainProbe
  \/ \E t \in TickIds, m \in Monitors :
       SaveOk(t, m) \/ SaveFail(t, m) \/ CatchSaveOk(t, m) \/ CatchSaveFail(t, m)
  \/ \E m \in Monitors \ Watched : resumeMonitor(m)

TallySpec == Init /\ [][TallyNext]_vars

\* The session manager alone: its functions applied to every monitor id,
\* session id (null included), capabilities and URL, as time passes.
SessionNext ==
  \/ \E k \in Monitors \cup {Null}, sid \in SessionIds \cup {Null},
        caps \in Capabilities, url \in Urls : SessionSet(k, sid, caps, url)
  \/ \E k \in Monitors \cup {Null} : SessionGet(k)
  \/ \E k \in Monitors \cup {Null} : SessionClear(k)
  \/ SessionSweep
  \/ AdvanceNow

SessionSpec == Init /\ [][SessionNext]_vars

\* Ticks one at a time on the active monitor, each check probing on the
\* plain or on the session path against any target; the owner changes the
\* monitor's url and tool discovery between ticks; sessions age and are swept.
ProbeNext ==
  \/ StartAlone /\ \A m \in Monitors : checksStarted[m] < MaxProbeChecks
  \/ \E t \in TickIds : TickEnd(t)
  \/ \E t \in TickIds, m \in Monitors, r \in Responses :
       ProbePlain(t, m, r, "found", "found")
  \/ \E t \in TickIds, m \in Monitors, tgt \in SteadyTargets :
       ProbeSession(t, m, tgt, "found", "found")
  \/ \E t \in TickIds, m \in Monitors : SaveOk(t, m)
  \/ AllIdle /\ \E m \in Watched, u \in Urls : updateMonitor(m, "url", u)
  \/ AllIdle /\ \E m \in Watched, b \in BOOLEAN : updateMonitor(m, "toolsSyncEnabled", b)
  \/ AllIdle /\ AdvanceNow
  \/ AllIdle /\ SessionSweep

ProbeSpec == Init /\ [][ProbeNext]_vars

\* Ticks one at a time on the active monitor, each check probing on the
\* session path against any target, also one that answers the repeated
\* handshake differently; the owner switches tool discovery between ticks.
DiscoveryNext ==
  \/ StartAlone /\ \A m \in Monitors : checksStarted[m] < MaxDiscoveryChecks
  \/ \E t \in TickIds : TickEnd(t)
  \/ \E t \in TickIds, m \in Monitors, tgt \in Targets :
       ProbeSession(t, m, tgt, "found", "found")
  \/ \E t \in TickIds, m \in Monitors : SaveOk(t, m)
  \/ AllIdle /\ \E m \in Watched, b \in BOOLEAN : updateMonitor(m, "toolsSyncEnabled", b)

DiscoverySpec == Init /\ [][DiscoveryNext]_vars

\* Ticks one at a time, every verdict, every outcome of the user lookups
\* made for the notifications; save() never rejects.
NotifyNext ==
  \/ StartAlone
  \/ \E t \in TickIds : TickEnd(t)
  \/ \E t \in TickIds, m \in Monitors, v \in Verdicts,
        u1 \in UserLookups, u2 \in UserLookups :
       ProbeDone(t, m, v, u1, u2) /\ UNCHANGED <<clientVars, probe>>
  \/ \E t \in TickIds, m \in Monitors : SaveOk(t, m)
  \/ AdvanceClock

NotifySpec == Init /\ [][NotifyNext]_vars

\* Ticks one at a time, each probe answering up or down after any of the
\* response times; every user lookup succeeds; save() never rejects.
LatencyNext ==
  \/ StartAlone
  \/ \E t \in TickIds : TickEnd(t)
  \/ \E t \in TickIds, m \in Monitors, v \in PlainVerdicts, l \in Latencies :
       ProbeTimed(t, m, v, "found", "found", l) /\ UNCHANGED <<clientVars, probe>>
  \/ \E t \in TickIds, m \in Monitors : SaveOk(t, m)

LatencySpec == Init /\ [][LatencyNext]_vars

\* The security scheduler alone: started and stopped, its timer firing,
\* immediate runs requested, runs ending either way.
ScanNext ==
  \/ startSecurityScheduler
  \/ stopSecurityScheduler
  \/ ScanTimerFire
  \/ runImmediateSecurityScan
  \/ \E k \in ScanKinds, threw \in BOOLEAN : ScanSettles(k, threw)

ScanSpec == Init /\ [][ScanNext]_vars

\* The retry wrapper alone, for every retryAttempts the schema allows up to
\* MaxRetryAttempts and every answer a probe can meet.
RetryNext ==
  \/ \E n \in 1..MaxRetryAttempts : RetryStart(n)
  \/ \E r \in Responses : RetryProbeDone(r)
  \/ RetryTimer

RetrySpec == Init /\ [][RetryNext]_vars

\* ----------------------------------------------------------------- claims
Checks == {chk[t][m] : t \in TickIds, m \in Monitors}

\* C1: while alerts are enabled and the user exists, the initial downtime
\* alert has been sent exactly once in the current run of failures once
\* consecutiveFailures has reached 2, and not at all while it is below 2.
C1_InitialAlertOncePerEpisode ==
  \A m \in Monitors :
    (InFlight(m) = {} /\ alertable[m]) =>
      initialInRun[m] = (IF db[m].consecutiveFailures >= AlertThreshold THEN 1 ELSE 0)

\* C2: a check sends the recovery notification exactly when the status it
\* loaded was offline and its verdict is reachable, and no second recovery
\* notification is sent before the monitor has been persisted offline again.
C2_RecoveryOncePerEdge ==
  /\ \A c \in Checks :
       (c.pc \in {"saving", "done"} /\ c.doc.alertsEnabled /\ c.doc.notifyOnRecovery) =>
         (c.recoverySent <=> (c.orig.status = "offline" /\ IsUp(c.verdict)))
  /\ \A m \in Monitors : recovSinceOffline[m] <= 1

\* C3: a check that sends a daily reminder leaves the monitor offline, sends
\* it at least 24 hours after the previous down alert, and sends it only
\* while fewer than 4 down alerts have gone out in the offline episode.
C3_ReminderRules ==
  \A c \in Checks :
    c.reminderSent =>
      /\ c.doc.status = "offline"
      /\ c.hoursSinceSent >= ReminderHours
      /\ c.alertsBefore < MaxAlerts

\* C4: a check that sends a down alert (initial or reminder) ends with
\* consecutiveFailures at 2 or more.
C4_NoAlertBelowThreshold ==
  \A c \in Checks :
    (c.initialSent \/ c.reminderSent) => c.doc.consecutiveFailures >= AlertThreshold

\* C5: between checks, the persisted consecutiveFailures equals the length
\* of the trailing run of unreachable verdicts (0 after a reachable one).
C5_StreakIsTrailingRun ==
  \A m \in Monitors :
    InFlight(m) = {} => db[m].consecutiveFailures = failRun[m]

\* C6: between checks, the persisted totalChecks equals the number of checks
\* run on the monitor since it was created with totalChecks = 0.
C6_TotalChecksCountsChecks ==
  \A m \in Monitors :
    InFlight(m) = {} => db[m].totalChecks = checksStarted[m]

\* C7: a check in which a step threw and that returned through the catch
\* block has persisted status offline, lastError = the exception message, and
\* totalChecks, failedChecks and consecutiveFailures each one above the
\* values the check loaded.
C7_CaughtCheckCountsOnce ==
  \A c \in Checks :
    (c.pc = "done" /\ c.path = "catch") =>
      /\ c.doc.status = "offline"
      /\ c.doc.lastError = "exception"
      /\ c.doc.totalChecks = c.orig.totalChecks + 1
      /\ c.doc.failedChecks = c.orig.failedChecks + 1
      /\ c.doc.consecutiveFailures = c.orig.consecutiveFailures + 1

\* C8: no call of checkSingleMonitor ends by rejecting; each ends with a
\* returned result.
C8_NoExceptionEscapes ==
  \A c \in Checks : c.pc # "threw"

\* C9: at most one scheduled tick is running at any time.
C9_OneScheduledTick ==
  Cardinality({t \in TickIds : tick[t].state = "running" /\ tick[t].kind = "scheduled"}) <= 1

\* C10: at most one check of a monitor is in flight at any time (scheduled
\* ticks and the startup check together), and between checks no increment of
\* totalChecks has been lost.
C10_OneCheckPerMonitor ==
  \A m \in Monitors :
    /\ Cardinality(InFlight(m)) <= 1
    /\ InFlight(m) = {} => db[m].totalChecks = checksStarted[m]

\* C11: when every check of a tick has settled, the summary has one entry per
\* loaded monitor, in loading order; a monitor's entry is up exactly when its
\* own check returned with a reachable verdict, whatever the other checks did
\* (returned or threw); each entry counts once, in successful when up and in
\* failed otherwise, and successful + failed = total = monitors loaded.
C11_TallyCountsEveryMonitor ==
  \A t \in TickIds :
    Settled(t) =>
      LET s == Tally(t)
          n == Cardinality(tick[t].loaded)
          idx == 1..Len(s.results)
      IN /\ Len(s.results) = n
         /\ s.total = n
         /\ s.successful + s.failed = s.total
         /\ \A m \in tick[t].loaded :
              Cardinality({i \in idx : s.results[i].monitorId = m}) = 1
         /\ \A i \in idx :
              LET c == chk[t][s.results[i].monitorId] IN
              s.results[i].isUp = (c.pc = "done" /\ c.path = "try" /\ IsUp(c.verdict))
         /\ s.successful = Cardinality({i \in idx : s.results[i].isUp})

C11_Witness ==
  \E t \in TickIds :
    /\ Settled(t)
    /\ tick[t].loaded = Monitors
    /\ chk[t]["m1"].pc = "threw"
    /\ chk[t]["m2"].pc = "done" /\ chk[t]["m2"].isUp

\* C12: when a check has saved and returns, the persisted status is online
\* if its verdict was reachable and offline if it was unreachable (never
\* unknown or paused), whatever the status was before.
C12_StatusFollowsVerdict ==
  [][\A t \in TickIds, m \in Monitors :
       SaveOk(t, m) =>
         db'[m].status = (IF IsUp(chk[t][m].verdict) THEN "online" ELSE "offline")]_vars

\* C17: right after setSession(monitorId, sessionId, capabilities, url) with
\* a monitor id and a session id, getSession(monitorId) returns an entry with
\* exactly that session id, capabilities and url.
C17_SetThenGet ==
  (call.op = "set" /\ call.key # Null /\ call.sid # Null) =>
    LET g == getSession(sessionCache, call.key, nowMin) IN
    /\ g.found # {}
    /\ \A e \in g.found :
         e.sessionId = call.sid /\ e.capabilities = call.caps /\ e.url = call.url

\* The last call was a set made while another monitor's session is cached.
C17_Witness ==
  /\ call.op = "set" /\ call.key # Null /\ call.sid # Null
  /\ call.caps # Null
  /\ \E j \in DOMAIN sessionCache : j # call.key /\ sessionCache[j].url # call.url

\* More than the TTL has passed since the entry was set.
Elapsed(e, t) == t - e.createdAt > SESSION_TTL

\* C18: getSession returns no entry whose TTL has elapsed: it removes such
\* an entry and returns none, and it returns an entry whose TTL has not
\* elapsed, leaving the cache as it was; the sweep leaves exactly the
\* entries whose TTL has not elapsed, each unchanged.
C18_NoExpiredEntryReturned ==
  [][/\ \A k \in Monitors :
         SessionGet(k) =>
           /\ \A e \in call'.found : ~Elapsed(e, nowMin)
           /\ (k \in DOMAIN sessionCache /\ Elapsed(sessionCache[k], nowMin)) =>
                (call'.found = {} /\ k \notin DOMAIN sessionCache')
           /\ (k \in DOMAIN sessionCache /\ ~Elapsed(sessionCache[k], nowMin)) =>
                (call'.found = {sessionCache[k]} /\ sessionCache' = sessionCache)
     /\ SessionSweep =>
         /\ DOMAIN sessionCache' = {k \in DOMAIN sessionCache : ~Elapsed(sessionCache[k], nowMin)}
         /\ \A k \in DOMAIN sessionCache' : sessionCache'[k] = sessionCache[k]]_vars

\* A lookup met an entry whose TTL had elapsed, while another monitor's
\* entry was still fresh.
C18_Witness ==
  /\ call.op = "get"
  /\ \E e \in call.met : Elapsed(e, nowMin)
  /\ call.found = {}
  /\ \E k \in DOMAIN sessionCache : ~Elapsed(sessionCache[k], nowMin)

\* C14: the wrapper makes its probe calls one after another, never more than
\* retryAttempts of them; every call before the current one failed (it stops
\* at the first reachable verdict); it returns the verdict of the last call
\* with attempts = the number of calls made, which is retryAttempts when
\* every call failed.
C14_RetryStopsAndCounts ==
  retry.pc # "idle" =>
    /\ retry.calls <= retry.retryAttempts
    /\ retry.pc = "probing" => retry.failed = retry.calls - 1
    /\ retry.pc = "waiting" => retry.failed = retry.calls
    /\ retry.pc = "returned" =>
         /\ retry.returned = retry.lastResult
         /\ retry.attempts = retry.calls
         /\ retry.returned.success => retry.failed = retry.calls - 1
         /\ ~retry.returned.success =>
              (retry.failed = retry.calls /\ retry.calls = retry.retryAttempts)

\* retryAttempts = 3 and three failed probes: returned with attempts = 3.
C14_Witness ==
  /\ retry.pc = "returned"
  /\ retry.retryAttempts = 3
  /\ ~retry.returned.success
  /\ retry.attempts = 3 /\ retry.calls = 3

\* C15: the k-th wait, made after failed attempt k, is 1000, 2000, 4000 and
\* then 5000 ms; a wait follows every failed attempt but the last one, and
\* none follows a reachable attempt.
C15_BackoffDelays ==
  /\ \A k \in 1..Len(retry.delays) :
       retry.delays[k] = (CASE k = 1 -> 1000 [] k = 2 -> 2000 [] k = 3 -> 4000
                            [] OTHER -> 5000)
  /\ retry.pc = "probing" => Len(retry.delays) = retry.calls - 1
  /\ retry.pc = "waiting" =>
       (Len(retry.delays) = retry.calls /\ retry.calls < retry.retryAttempts)
  /\ retry.pc = "returned" => Len(retry.delays) = retry.calls - 1

\* Five failed attempts: four waits, the last one capped, none after the
\* final attempt.
C15_Witness ==
  /\ retry.pc = "returned"
  /\ ~retry.returned.success
  /\ retry.calls = 5
  /\ Len(retry.delays) = 4 /\ retry.delays[4] = 5000

Probed(t, m) == probe[t][m].path # "none"

\* No request of the check's probe is answered by the target.
TargetUnreachable(p) ==
  IF p.path = "plain" THEN p.resp \in ConnectionFailures
  ELSE /\ p.tgt.init = "net" /\ p.tgt.tools = "net"
       /\ p.tgt.init2 = "net" /\ p.tgt.tools2 = "net"

\* C13: a check whose target answers no request yields an unreachable
\* verdict, leaves the monitor offline and adds one to consecutiveFailures,
\* on the plain and on the session path, with or without a cached session,
\* with tool discovery enabled or disabled.
C13_UnreachableTargetGoesOffline ==
  \A t \in TickIds, m \in Monitors :
    (Probed(t, m) /\ TargetUnreachable(probe[t][m])) =>
      /\ ~probe[t][m].success
      /\ chk[t][m].doc.status = "offline"
      /\ chk[t][m].doc.consecutiveFailures = chk[t][m].orig.consecutiveFailures + 1

\* C16: a check reuses a cached session only if the entry's url is the
\* monitor's url; on a mismatch the entry is cleared and a handshake is made;
\* every session id a check sends goes to the url that issued it, and the
\* cache only holds ids under the url that issued them.
C16_SessionBoundToUrl ==
  /\ \A k \in DOMAIN sessionCache :
       IssuedBy(sessionCache[k].sessionId) = sessionCache[k].url
  /\ \A t \in TickIds, m \in Monitors :
       LET p == probe[t][m] IN
       p.path = "session" =>
         /\ p.reused => p.cachedUrl = p.url
         /\ p.cachedUrl \notin {Null, p.url} =>
              p.cleared /\ ~p.reused /\ p.handshakes >= 1
         /\ \A pair \in p.sent : pair[1] = p.url /\ IssuedBy(pair[2]) = pair[1]

\* A check met a live entry bound to another url, and sent a session id.
C16_Witness ==
  \E t \in TickIds, m \in Monitors :
    LET p == probe[t][m] IN
    /\ p.path = "session"
    /\ p.cachedUrl \notin {Null, p.url}
    /\ p.sent # {}

\* The target answered a request of the check with an HTTP error status.
AnsweredHttpError(p) ==
  \/ p.path = "plain" /\ p.resp \in HttpErrors
  \/ p.path = "session" /\ p.handshakes >= 1 /\ p.tgt.init \in {"http", "http401"}

\* C19: after a reachable verdict lastError is null without a warning and
\* the warning text with one, and a target answering with an HTTP error
\* status ends online with the warning as lastError; after an unreachable
\* verdict lastError is the error detail.
C19_LastErrorFollowsVerdict ==
  \A t \in TickIds, m \in Monitors :
    LET p == probe[t][m]
        d == chk[t][m].doc
    IN
    Probed(t, m) =>
      /\ (p.success /\ p.warning = Null) => d.lastError = "none"
      /\ (p.success /\ p.warning # Null) => d.lastError = "warning"
      /\ ~p.success => d.lastError = "error"
      /\ AnsweredHttpError(p) =>
           p.warning # Null /\ d.status = "online" /\ d.lastError = "warning"

\* C21: between checks the persisted uptimePercentage is
\* (totalChecks - failedChecks) / totalChecks * 100 rounded to two decimals,
\* 100 when totalChecks is 0, and lies between 0 and 100.
C21_UptimeFollowsCounters ==
  \A m \in Monitors :
    InFlight(m) = {} =>
      /\ db[m].uptimePercentage = calculateUptime(db[m].totalChecks, db[m].failedChecks)
      /\ db[m].uptimePercentage \in 0..(100 * Hundredths)

\* C22: a tick loads exactly the monitors whose isActive flag is true when
\* it starts and runs a check for exactly those; only a check of a monitor
\* the tick loaded as active writes the monitor's document, so a monitor
\* that is paused when the tick starts keeps every field through that tick.
C22_TickChecksActiveOnly ==
  [][ /\ \A t \in TickIds :
           (tick[t].state = "idle" /\ tick'[t].state = "running") =>
             /\ tick'[t].loaded = {m \in Monitors : db[m].isActive}
             /\ \A m \in Monitors :
                  IF db[m].isActive
                  THEN chk'[t][m].pc = "probing" /\ chk'[t][m].orig = db[m]
                  ELSE chk'[t][m] = NoCheck
      /\ \A t \in TickIds, m \in Monitors :
           m \notin tick'[t].loaded => chk'[t][m] = NoCheck
      /\ \A m \in Monitors :
           (db'[m] # db[m] /\ chk' # chk) =>
             \E t \in TickIds :
               /\ m \in tick[t].loaded
               /\ chk[t][m].orig.isActive
               /\ chk[t][m].pc \in {"saving", "catchSaving"}
               /\ chk'[t][m].pc = "done"
    ]_vars

\* A tick that started while m2 was paused and m1 active has checked and
\* written m1, and m2 is as it was.
C22_Witness ==
  \E t \in TickIds :
    /\ tick[t].state = "running"
    /\ tick[t].loaded = {"m1"}
    /\ chk[t]["m1"].pc = "done"
    /\ db["m1"].totalChecks > chk[t]["m1"].orig.totalChecks
    /\ db["m2"] = PausedMonitor
    /\ chk[t]["m2"] = NoCheck

\* A notification of the check was due and its user lookup or dispatch failed.
NotificationFailed(c) ==
  \/ /\ c.lookup1 = "throws"
     /\ c.doc.alertsEnabled
     /\ \/ IsUp(c.verdict) /\ c.orig.status = "offline" /\ c.doc.notifyOnRecovery
        \/ /\ ~IsUp(c.verdict)
           /\ c.orig.consecutiveFailures + 1 >= AlertThreshold
           /\ c.orig.consecutiveFailures < AlertThreshold
  \/ /\ c.lookup2 = "throws"
     /\ ~IsUp(c.verdict)
     /\ shouldSendDailyReminder(
          [c.doc EXCEPT !.alertsSentCount = IF c.initialSent THEN 1 ELSE c.orig.alertsSentCount,
                        !.lastAlertSentAt = IF c.initialSent THEN clock ELSE c.orig.lastAlertSentAt],
          clock)

\* C23: whatever the outcome of the user lookups and dispatches of a check's
\* notifications, the check reaches save() and returns its result, with the
\* status, totalChecks, failedChecks and consecutiveFailures it has when
\* every notification succeeds, and these are what it persists.
C23_NotificationFailureSwallowed ==
  \A t \in TickIds, m \in Monitors :
    LET c == chk[t][m]
        ok == TryBlock(c.orig, c.verdict, "found", "found", clock, c.responseTime).s.doc
        same(d) == /\ d.status = ok.status
                   /\ d.totalChecks = ok.totalChecks
                   /\ d.failedChecks = ok.failedChecks
                   /\ d.consecutiveFailures = ok.consecutiveFailures
    IN
    /\ c.pc \in {"saving", "done"} => same(c.doc)
    /\ c.pc = "done" => c.path = "try" /\ c.isUp = IsUp(c.verdict) /\ same(db[m])
    /\ c.pc # "threw"

\* A check whose initial alert, reminder or recovery notification failed
\* has returned.
C23_Witness ==
  \E t \in TickIds, m \in Monitors :
    chk[t][m].pc = "done" /\ NotificationFailed(chk[t][m])

\* C24: whenever the persisted status is online, alertsSentCount is 0 and
\* lastAlertSentAt is null.
C24_OnlineHasNoAlertBookkeeping ==
  \A m \in Monitors :
    db[m].status = "online" =>
      db[m].alertsSentCount = 0 /\ db[m].lastAlertSentAt = NoTime

\* C25: a check's probe goes through the retry wrapper: when the first
\* attempt is unreachable and retryAttempts is above 1, the check makes
\* further attempts before the state machine consumes the verdict.
C25_ChecksRetryTheProbe ==
  \A t \in TickIds, m \in Monitors :
    LET p == probe[t][m] IN
    (Probed(t, m) /\ ~p.success /\ chk[t][m].orig.retryAttempts > 1) =>
      p.attempts > 1

\* The check's first tools/list request failed with an error status or a
\* JSON-RPC error naming the session.
DiscoveryFailedOnSession(p) ==
  p.path = "session" /\ p.discoveries >= 1 /\ p.tgt.tools \in {"http", "session"}

\* C26: when tool discovery fails with a session-related error the check
\* clears the cached session and makes one re-handshake, and one retried
\* discovery when that handshake succeeds; the verdict is unreachable if the
\* re-handshake or the retried discovery fails, reachable otherwise; no
\* check makes more than two handshakes or two discoveries.
C26_OneRehandshakeAndRetry ==
  \A t \in TickIds, m \in Monitors :
    LET p == probe[t][m]
        first == IF p.reused THEN 0 ELSE 1
        reOk == p.tgt.init2 \in {"ok", "okNoId"}
    IN
    p.path = "session" =>
      /\ p.handshakes <= 2 /\ p.discoveries <= 2
      /\ DiscoveryFailedOnSession(p) =>
           /\ p.invalidated
           /\ p.handshakes = first + 1
           /\ p.discoveries = (IF reOk THEN 2 ELSE 1)
           /\ p.success <=> (reOk /\ p.tgt.tools2 = "ok")
           /\ ~reOk => m \notin DOMAIN sessionCache
      /\ ~DiscoveryFailedOnSession(p) =>
           ~p.invalidated /\ p.handshakes = first /\ p.discoveries <= 1

\* A check whose discovery failed on the session re-handshook and retried,
\* and the retried discovery failed too.
C26_Witness ==
  \E t \in TickIds, m \in Monitors :
    LET p == probe[t][m] IN
    /\ DiscoveryFailedOnSession(p)
    /\ p.handshakes = 2 /\ p.discoveries = 2 /\ ~p.success

\* C27: at every moment the persisted status is paused if and only if
\* isActive is false.
C27_PausedIffInactive ==
  \A m \in Monitors : (db[m].status = "paused") <=> ~db[m].isActive

\* The step is the save() of a check of m.
CheckSaves(m) ==
  \E t \in TickIds :
    chk[t][m].pc \in {"saving", "catchSaving"} /\ chk'[t][m].pc = "done"

\* C28 as stated: the persisted status changes only in the save() of a
\* check; every other step leaves it unchanged.
C28_StatusWrittenOnlyByChecks ==
  [][ \A m \in Monitors :
        db'[m].status # db[m].status => CheckSaves(m) ]_vars

\* C28: the persisted status changes only in the save() of a check, in
\* pauseMonitor (to paused, with isActive false) and in resumeMonitor (to
\* unknown, with isActive true); every other step leaves it unchanged.
C28_StatusWrittenByChecksPauseResume ==
  [][ \A m \in Monitors :
        db'[m].status # db[m].status =>
          \/ CheckSaves(m)
          \/ chk' = chk /\ db'[m].status = "paused" /\ ~db'[m].isActive
          \/ chk' = chk /\ db'[m].status = "unknown" /\ db'[m].isActive ]_vars

\* The owner has updated a flag of a monitor that checks have written, and
\* the status is the one the last check left.
C28_Witness ==
  /\ db["m1"].totalChecks > 0
  /\ db["m1"].status \in {"online", "offline"}
  /\ ~db["m1"].alertsEnabled
  /\ ~db["m1"].isActive

\* C29: when a check processes a recovery edge (it loaded status offline and
\* its verdict is reachable), the lastDowntime it loaded is the time of the
\* first unreachable check of the run of failures that is ending.
C29_LastDowntimeIsRunStart ==
  \A t \in TickIds, m \in Monitors :
    LET c == chk[t][m] IN
    (c.pc = "saving" /\ c.orig.status = "offline" /\ IsUp(c.verdict)) =>
      c.orig.lastDowntime # NoTime /\ c.orig.lastDowntime = downSince[m]

\* C30: no check sends both the initial downtime alert and a daily reminder.
C30_OneDownAlertPerCheck ==
  \A c \in Checks : ~(c.initialSent /\ c.reminderSent)

\* A check has sent the initial alert, gone on to the reminder test with the
\* user found, and returned.
C30_Witness ==
  \E c \in Checks :
    /\ c.pc = "done" /\ c.initialSent /\ c.lookup2 = "found"
    /\ c.doc.alertsSentCount = 1 /\ c.doc.lastAlertSentAt = clock

\* The check loaded status offline and its verdict is reachable.
RecoveryEdge(c) == c.orig.status = "offline" /\ IsUp(c.verdict)

DownEdge(c) == c.orig.status = "online" /\ c.doc.status = "offline"
UpEdge(c) == c.orig.status = "offline" /\ c.doc.status = "online"

\* statusChanged of the returned result; the errorResult has none.
ReturnedStatusChanged(c) == c.path = "try" /\ c.statusChanged

\* C32: a check changes lastStatusChangeAt only on an online-to-offline or
\* offline-to-online edge, where it sets it to now; it changes lastDowntime
\* only on an online-to-offline edge, where it sets it to now; and the
\* returned statusChanged is true on exactly the edge checks.
C32_TimestampsFollowEdges ==
  \A c \in Checks :
    c.pc = "done" =>
      /\ c.doc.lastStatusChangeAt # c.orig.lastStatusChangeAt => DownEdge(c) \/ UpEdge(c)
      /\ (DownEdge(c) \/ UpEdge(c)) => c.doc.lastStatusChangeAt = clock
      /\ c.doc.lastDowntime # c.orig.lastDowntime => DownEdge(c)
      /\ DownEdge(c) => c.doc.lastDowntime = clock
      /\ ReturnedStatusChanged(c) <=> (DownEdge(c) \/ UpEdge(c))

\* C33: within a check the probe finishes before any field of the monitor
\* is changed and before any notification is dispatched; nothing is
\* published before the document is persisted; and a check that has ended
\* has published its update exactly once.
C33_StepsInOrder ==
  \A c \in Checks :
    /\ c.pc = "probing" =>
         /\ c.doc = c.orig /\ c.dirty = {}
         /\ ~c.initialSent /\ ~c.reminderSent /\ ~c.recoverySent
    /\ c.pc \in {"probing", "saving", "catchSaving"} => c.published = 0
    /\ c.pc \in {"done", "threw"} => c.published = 1

\* C34: a 2xx answer is reachable exactly when its body is a JSON-RPC
\* envelope ("jsonrpc":"2.0" with a result or an error); a body that does
\* not parse or lacks the envelope, an unsupported content type and a
\* missing content type are each unreachable with their own error detail.
C34_ReachableOnlyWithFullEnvelope ==
  retry.resp # "none" =>
    LET res == retry.lastResult IN
    /\ retry.resp = "json200" => res.success
    /\ retry.resp = "bareEnvelope200" => ~res.success
    /\ retry.resp = "badEnvelope200" =>
         (~res.success /\ res.error = "Invalid JSON-RPC response format")
    /\ retry.resp = "badJson200" =>
         (~res.success /\ res.error = "Failed to parse JSON response")
    /\ retry.resp = "otherType200" =>
         (~res.success /\ res.error = "Unsupported content type")
    /\ retry.resp = "noType200" =>
         (~res.success /\ res.error = "Missing content-type header")

\* The target answered the check's plain request or its handshake with a
\* 401 or a 403.
AuthRejected(p) ==
  \/ p.path = "plain" /\ p.resp = "http401"
  \/ p.path = "session" /\ p.handshakes >= 1 /\ p.tgt.init = "http401"

\* C35: a check whose plain request or handshake was answered with a 401
\* or a 403 reports a result that carries an auth-status hint.
C35_AuthRejectionCarriesHint ==
  \A t \in TickIds, m \in Monitors :
    LET p == probe[t][m] IN
    (Probed(t, m) /\ AuthRejected(p)) => p.authStatus # Null

\* What averageResponseTime becomes by a check with the given verdict and
\* response time on the document d it loaded.
AverageAfter(d, v, responseTime) ==
  LET n == d.totalChecks + 1 IN
  IF ~IsUp(v) THEN d.averageResponseTime
  ELSE IF n = 1 THEN responseTime
  ELSE MathRound(d.averageResponseTime * (n - 1) + responseTime, n)

C37_AverageWithinLatencies ==
  \A m \in Monitors :
    (InFlight(m) = {} /\ latencySpan[m].ups > 0) =>
      /\ latencySpan[m].min <= db[m].averageResponseTime
      /\ db[m].averageResponseTime <= latencySpan[m].max

\* The last handshake the check made succeeded.
HandshakeSucceeded(p) ==
  /\ p.path = "session" /\ p.handshakes >= 1
  /\ (IF p.invalidated THEN p.tgt.init2 ELSE p.tgt.init) \in {"ok", "okNoId"}

\* C38: after a check on the session path whose handshake succeeded, with
\* or without a session id in the answer, the session cache holds an entry
\* for the monitor bound to the monitor's url.
C38_HandshakeLeavesSession ==
  \A t \in TickIds, m \in Monitors :
    LET p == probe[t][m] IN
    (Probed(t, m) /\ HandshakeSucceeded(p)) =>
      /\ m \in DOMAIN sessionCache
      /\ sessionCache[m].url = p.url

\* C39: at most one security-scan run is in flight; a timer firing or an
\* immediate request that meets a run in progress starts nothing and
\* leaves isRunning set (the request is rejected); a run that ends, with a
\* summary or by throwing, clears isRunning, and isRunning is set only
\* while a run is in flight, so a run can start whenever none is.
C39_OneScanAtATime ==
  /\ RunsInFlight <= 1
  /\ scan.isRunning <=> RunsInFlight = 1
  /\ scan.last \in {"skipped", "rejected"} =>
       (scan.flagBefore /\ scan.isRunning /\ RunsInFlight = 1)
  /\ scan.last = "started" => (~scan.flagBefore /\ scan.isRunning)
  /\ scan.last \in {"completed", "threw"} =>
       (scan.flagBefore /\ ~scan.isRunning /\ RunsInFlight = 0)
  /\ scan.last = "threw" => scan.lastRunSummary = "error"

\* After a run that threw, a later scheduled run is in flight and an
\* immediate request has just been rejected.
C39_Witness ==
  /\ scan.last = "rejected"
  /\ scan.lastRunSummary = "error"
  /\ scan.lastRunTime >= 2
  /\ scan.inFlight["scheduled"] = 1
  /\ scan.isRunning
====
